---- MODULE Spec2Model ----
(***************************************************************************)
(* Tic-tac-toe with move history and time travel (App.js: Board, Game,     *)
(* calculateWinner).  The state is the two useState cells of Game; each    *)
(* action is one UI event handler run to completion, followed by the       *)
(* re-render that rebinds history, currentMove and the derived values.     *)
(***************************************************************************)
EXTENDS Integers, Sequences, FiniteSets, TLC

VARIABLES
  history,      \* Game's history state: the array of board snapshots
  currentMove,  \* Game's currentMove state: index of the viewed snapshot
  lastCall,     \* the handler that ran last and what it did
  probe         \* a board handed to calculateWinner and what it returned

vars == <<history, currentMove, lastCall, probe>>

\* Longest history (number of snapshots) the model explores.
MaxLen == 6

\* JavaScript null, the content of an empty square.
Null == "null"

Marks == {"X", "O"}

Values == Marks \cup {Null}

\* Indices of the nine squares of a board.
Cells == 0..8

\* JavaScript truthiness of a square's content: null is falsy, 'X' and 'O'
\* are truthy.
Truthy(v) == v # Null

\* Element k of a 0-indexed JavaScript array held as a sequence.
Nth(arr, k) == arr[k + 1]

\* Array(9).fill(null)
EmptyBoard == [c \in Cells |-> Null]

\* The eight winning lines, in the order calculateWinner scans them.
linesWithoutLastDiagonal ==
  << <<0, 1, 2>>, <<3, 4, 5>>, <<6, 7, 8>>,
     <<0, 3, 6>>, <<1, 4, 7>>, <<2, 5, 8>>,
     <<0, 4, 8>> >>

lines ==
  << <<0, 1, 2>>, <<3, 4, 5>>, <<6, 7, 8>>,
     <<0, 3, 6>>, <<1, 4, 7>>, <<2, 5, 8>>,
     <<0, 4, 8>>, <<2, 4, 6>> >>

\* The test of one line inside the loop of calculateWinner.
LineMatchesFirstTwo(squares, line) ==
  /\ Truthy(squares[line[1]])
  /\ squares[line[1]] = squares[line[2]]

LineMatches(squares, line) ==
  /\ Truthy(squares[line[1]])
  /\ squares[line[1]] = squares[line[2]]
  /\ squares[line[1]] = squares[line[3]]

\* The for loop of calculateWinner from index i (0-based) on: the first
\* matching line decides, null when the loop runs out.
RECURSIVE ScanLines(_, _)
ScanLines(squares, i) ==
  IF i >= Len(lines) THEN Null
  ELSE IF LineMatches(squares, Nth(lines, i))
       THEN squares[Nth(lines, i)[1]]
       ELSE ScanLines(squares, i + 1)

calculateWinner(squares) == ScanLines(squares, 0)

\* Array.prototype.slice(begin, end) for 0 <= begin: end is clamped to the
\* length, a negative end counts from the back.
Slice(arr, begin, end) ==
  LET n == Len(arr)
      e == IF end < 0 THEN (IF n + end < 0 THEN 0 ELSE n + end)
           ELSE IF end > n THEN n ELSE end
  IN  SubSeq(arr, begin + 1, e)

\* Derived values of a render of Game.
xIsNextFromLength == Len(history) % 2 = 1

xIsNext == currentMove % 2 = 0

currentSquares == Nth(history, currentMove)

\* The indices the move list offers: one button per element of history.
moves == 0..(Len(history) - 1)

\* Board's status line.
statusSwapped ==
  LET winner == calculateWinner(currentSquares)
  IN  IF Truthy(winner) THEN <<"Winner", winner>>
      ELSE <<"Next player", IF xIsNext THEN "O" ELSE "X">>

status ==
  LET winner == calculateWinner(currentSquares)
  IN  IF Truthy(winner) THEN <<"Winner", winner>>
      ELSE <<"Next player", IF xIsNext THEN "X" ELSE "O">>

\* The guard of Board.handleClick.
ClickIgnoredWinnerOnly(squares, i) == Truthy(calculateWinner(squares))

ClickIgnoredOccupiedOnly(squares, i) == Truthy(squares[i])

ClickIgnoredOnLatest(squares, i) ==
  Truthy(calculateWinner(Nth(history, Len(history) - 1))) \/ Truthy(squares[i])

ClickIgnored(squares, i) ==
  Truthy(calculateWinner(squares)) \/ Truthy(squares[i])

\* nextSquares of Board.handleClick: a copy with square i set to the mover.
NextSquaresSwapped(squares, i, xNext) ==
  [squares EXCEPT ![i] = IF xNext THEN "O" ELSE "X"]

NextSquares(squares, i, xNext) ==
  [squares EXCEPT ![i] = IF xNext THEN "X" ELSE "O"]

\* nextHistory of Game.handlePlay.
NextHistoryOffByOne(hist, move, nextSquares) ==
  Append(Slice(hist, 0, move), nextSquares)

NextHistoryNoTruncate(hist, move, nextSquares) ==
  Append(hist, nextSquares)

NextHistoryAliased(hist, move, nextSquares) ==
  Append([Slice(hist, 0, move + 1) EXCEPT ![move + 1] = nextSquares],
         nextSquares)

NextHistory(hist, move, nextSquares) ==
  Append(Slice(hist, 0, move + 1), nextSquares)

\* currentMove after Game.handlePlay.
NextMoveStale(nextHistory) == Len(history)

NextMove(nextHistory) == Len(nextHistory) - 1

\* What lastCall holds: the handler, its argument, whether it changed the
\* state, how many snapshots an accepted play discarded and what
\* calculateWinner gave for the last of them (null when none was discarded).
\* An ignored click leaves no trace of the square it was aimed at.
NoArg == 0 - 1

Call(op, arg, accepted, discarded, lostWinner) ==
  [op |-> op, arg |-> arg, accepted |-> accepted, discarded |-> discarded,
   lostWinner |-> lostWinner]

NoProbe == [squares |-> EmptyBoard, done |-> FALSE, result |-> Null]

Init ==
  /\ history = <<EmptyBoard>>
  /\ currentMove = 0
  /\ lastCall = Call("none", NoArg, FALSE, 0, Null)
  /\ probe = NoProbe

\* A click on square i: Board.handleClick(i), and Game.handlePlay when the
\* click is not ignored.  explored says whether the model follows the
\* accepted play; the code has no such condition.
Clicked(i, explored) ==
  /\ IF ClickIgnored(currentSquares, i)
     THEN /\ UNCHANGED <<history, currentMove>>
          /\ lastCall' = Call("play", NoArg, FALSE, 0, Null)
     ELSE LET nextSquares == NextSquares(currentSquares, i, xIsNext)
              nextHistory == NextHistory(history, currentMove, nextSquares)
              discarded == Len(history) - (currentMove + 1)
          IN  /\ explored
              /\ history' = nextHistory
              /\ currentMove' = NextMove(nextHistory)
              /\ lastCall' =
                   Call("play", i, TRUE, discarded,
                        IF discarded > 0
                        THEN calculateWinner(Nth(history, Len(history) - 1))
                        ELSE Null)
  /\ UNCHANGED probe

\* The click as Spec explores it: histories of at most MaxLen snapshots.
handleClick(i) ==
  Clicked(i, Len(NextHistory(history, currentMove,
                             NextSquares(currentSquares, i, xIsNext)))
               <= MaxLen)

\* Game.jumpTo(nextMove).
jumpToTruncating(nextMove) ==
  /\ currentMove' = nextMove
  /\ history' = Slice(history, 0, nextMove + 1)
  /\ lastCall' = Call("jumpTo", nextMove, TRUE, 0, Null)
  /\ UNCHANGED probe

jumpToOneBased(nextMove) ==
  /\ currentMove' = nextMove + 1
  /\ UNCHANGED history
  /\ lastCall' = Call("jumpTo", nextMove, TRUE, 0, Null)
  /\ UNCHANGED probe

jumpToClamped(nextMove) ==
  /\ currentMove' = IF nextMove < 0 THEN 0
                    ELSE IF nextMove > Len(history) - 1 THEN Len(history) - 1
                    ELSE nextMove
  /\ UNCHANGED history
  /\ lastCall' = Call("jumpTo", nextMove, TRUE, 0, Null)
  /\ UNCHANGED probe

jumpTo(nextMove) ==
  /\ currentMove' = nextMove
  /\ UNCHANGED history
  /\ lastCall' = Call("jumpTo", nextMove, TRUE, 0, Null)
  /\ UNCHANGED probe

Click == \E i \in Cells : handleClick(i)

Jump == \E move \in moves : jumpTo(move)

Next == Click \/ Jump

Spec == Init /\ [][Next]_vars

(***************************************************************************)
(* calculateWinner on its own, over every board of nine squares.           *)
(***************************************************************************)
Boards == [Cells -> Values]

InitWin ==
  /\ history = <<EmptyBoard>>
  /\ currentMove = 0
  /\ lastCall = Call("none", NoArg, FALSE, 0, Null)
  /\ \E b \in Boards : probe = [squares |-> b, done |-> FALSE, result |-> Null]

CheckWinner ==
  /\ ~probe.done
  /\ probe' = [probe EXCEPT !.done = TRUE,
                            !.result = calculateWinner(probe.squares)]
  /\ UNCHANGED <<history, currentMove, lastCall>>

NextWin == CheckWinner

SpecWin == InitWin /\ [][NextWin]_vars

(***************************************************************************)
(* Whole games.  Accepted plays follow the moves of a few games, any of    *)
(* them at each pointer value; ignored clicks and jumps are unrestricted.  *)
(***************************************************************************)

\* Games[g] lists the squares of game g in the order they are played:
\* X wins with the left column at move 5; X completes the top row and the
\* left column at once at move 9; nobody wins; O wins with the middle row
\* at move 6; X wins with the middle row at move 7; O wins with the middle
\* row at move 8.
Games ==
  << <<0, 1, 3, 4, 6, 7, 2, 5, 8>>,
     <<1, 4, 2, 5, 3, 7, 6, 8, 0>>,
     <<0, 1, 2, 4, 7, 5, 3, 6, 8>>,
     <<0, 3, 1, 4, 8, 5, 2, 6, 7>>,
     <<4, 0, 2, 6, 3, 1, 5, 7, 8>>,
     <<0, 4, 1, 2, 6, 3, 8, 5, 7>> >>

\* The squares the games play at pointer value move; their last squares
\* once the games are over.
Offered(move) ==
  {Nth(Games[g], IF move < Len(Games[g]) THEN move ELSE Len(Games[g]) - 1) :
     g \in DOMAIN Games}

ClickDeep == \E i \in Cells : Clicked(i, i \in Offered(currentMove))

NextDeep == ClickDeep \/ Jump

SpecDeep == Init /\ [][NextDeep]_vars

(***************************************************************************)
(* jumpTo called with any index, also one the move list does not offer.    *)
(* With currentMove out of range history[currentMove] is undefined and     *)
(* the render of Board throws in calculateWinner: no handler is left.      *)
(***************************************************************************)

\* How far beyond the ends of history the index of a jump may lie.
JumpSlack == 1

\* The last render succeeded, so the board and the move list are on screen.
Rendered == currentMove \in moves

ClickRaw == Rendered /\ \E i \in Cells : handleClick(i)

JumpRaw ==
  /\ Rendered
  /\ \E nextMove \in (0 - JumpSlack)..(Len(history) - 1 + JumpSlack) :
       jumpTo(nextMove)

NextRaw == ClickRaw \/ JumpRaw

SpecRaw == Init /\ [][NextRaw]_vars

(***************************************************************************)
(* Play without time travel: clicks only.  The opening click is on one of  *)
(* the squares 0..MaxFirst; every later click is on any square.            *)
(***************************************************************************)
MaxFirst == 1

ClickPlay ==
  \E i \in Cells : Clicked(i, currentMove > 0 \/ i <= MaxFirst)

\* A click that was accepted.
PlayAccepted == ClickPlay /\ lastCall'.accepted

NextPlay == ClickPlay

SpecPlay == Init /\ [][NextPlay]_vars /\ WF_vars(PlayAccepted)

(***************************************************************************)
(* Properties.                                                             *)
(***************************************************************************)

\* The eight lines as the specification lists them.
WinningLines ==
  { <<0, 1, 2>>, <<3, 4, 5>>, <<6, 7, 8>>, <<0, 3, 6>>,
    <<1, 4, 7>>, <<2, 5, 8>>, <<0, 4, 8>>, <<2, 4, 6>> }

\* Line l of board b holds three times mark m.
Holds(b, l, m) == b[l[1]] = m /\ b[l[2]] = m /\ b[l[3]] = m

\* Board b has a line of three equal marks.
HasWinner(b) == \E l \in WinningLines : \E m \in Marks : Holds(b, l, m)

\* The step is a call of play that was accepted.
AcceptedPlay == lastCall'.op = "play" /\ lastCall'.accepted

\* The mark whose turn it is at pointer value move.
MarkAt(move) == IF move % 2 = 0 THEN "X" ELSE "O"

C2_BranchTruncation ==
  [][AcceptedPlay =>
       /\ Len(history') = currentMove + 2
       /\ \A k \in 0..currentMove : Nth(history', k) = Nth(history, k)
       /\ Nth(history', currentMove + 1) # Nth(history, currentMove)
       /\ (Len(history) = 5 /\ currentMove = 2 => Len(history') = 4)]_vars

\* History of length 5, jumpTo(2), play: length 4, two snapshots discarded.
C2_Witness ==
  /\ lastCall.op = "play"
  /\ lastCall.accepted
  /\ lastCall.discarded = 2
  /\ Len(history) = 4
  /\ currentMove = 3

\* C3: history[0] is the empty board and each later snapshot differs from
\* its predecessor in exactly one square, empty before and marked after.
C3_HistoryInvariant ==
  /\ Nth(history, 0) = EmptyBoard
  /\ \A k \in 1..(Len(history) - 1) :
       LET prev == Nth(history, k - 1)
           cur == Nth(history, k)
           changed == {c \in Cells : cur[c] # prev[c]}
       IN  /\ Cardinality(changed) = 1
           /\ \A c \in changed : prev[c] = Null /\ cur[c] \in Marks

\* A history of five or more snapshots whose last one replaced a discarded
\* future.
C3_Witness ==
  /\ Len(history) >= 5
  /\ lastCall.op = "play"
  /\ lastCall.accepted
  /\ lastCall.discarded >= 1

\* C4: currentMove is an integer in 0..len(history)-1, so the viewed board
\* is always a defined board.
C4_PointerInRange ==
  /\ currentMove \in Int
  /\ 0 <= currentMove
  /\ currentMove <= Len(history) - 1
  /\ currentSquares \in Boards

\* The pointer was moved by a jump to the last index the move list offers.
C4_Witness ==
  /\ lastCall.op = "jumpTo"
  /\ lastCall.arg = Len(history) - 1
  /\ Len(history) >= 3

\* C5: jumpTo(moveIndex) sets currentMove to moveIndex and leaves history
\* unchanged, so the viewed board becomes history[moveIndex].
C5_JumpIsPointerMove ==
  [][lastCall'.op = "jumpTo" =>
       /\ currentMove' = lastCall'.arg
       /\ history' = history
       /\ currentSquares' = Nth(history, lastCall'.arg)]_vars

\* A jump back over at least two snapshots.
C5_Witness ==
  /\ lastCall.op = "jumpTo"
  /\ currentMove = lastCall.arg
  /\ currentMove + 2 < Len(history)

\* C6: an accepted play leaves currentMove at the last index of the new
\* history, and no play, accepted or ignored, lowers currentMove.
C6_PlayAdvancesPointer ==
  [][/\ AcceptedPlay => currentMove' = Len(history') - 1
     /\ lastCall'.op = "play" => currentMove' >= currentMove]_vars

\* An accepted play on a branch: the history got shorter, the pointer grew.
C6_Witness ==
  /\ lastCall.op = "play"
  /\ lastCall.accepted
  /\ lastCall.discarded >= 2
  /\ currentMove = Len(history) - 1
  /\ currentMove = 1

\* C7: the board appended by an accepted play(position) equals the viewed
\* board in the eight other squares and holds X at position if currentMove
\* was even, O if it was odd; the viewed board itself is not modified.
C7_PlayEffect ==
  [][AcceptedPlay =>
       LET position == lastCall'.arg
           appended == Nth(history', Len(history') - 1)
       IN  /\ position \in Cells
           /\ \A c \in Cells \ {position} : appended[c] = currentSquares[c]
           /\ appended[position] = MarkAt(currentMove)
           /\ Nth(history', currentMove) = currentSquares]_vars

\* O was just placed on square 8 of a board that already held three marks.
C7_Witness ==
  /\ lastCall.op = "play"
  /\ lastCall.accepted
  /\ lastCall.arg = 8
  /\ currentMove = 4
  /\ currentSquares[8] = "O"

\* C8 as stated: whichever line holds three equal marks, calculateWinner
\* returns that line's mark, on every board.
C8_AsStated ==
  probe.done =>
    \A l \in WinningLines : \A m \in Marks :
      Holds(probe.squares, l, m) => probe.result = m

\* The first line, in the order the specification lists them, that holds
\* three equal marks on board b.
ListedLines ==
  << <<0, 1, 2>>, <<3, 4, 5>>, <<6, 7, 8>>, <<0, 3, 6>>,
     <<1, 4, 7>>, <<2, 5, 8>>, <<0, 4, 8>>, <<2, 4, 6>> >>

IsFirstComplete(b, n) ==
  /\ \E m \in Marks : Holds(b, ListedLines[n], m)
  /\ \A j \in 1..(n - 1) : \A m \in Marks : ~Holds(b, ListedLines[j], m)

\* C8 amended: on every board with a complete line calculateWinner returns
\* a mark, the mark of the first complete line in the listed order; it is
\* the mark of every complete line when all complete lines hold one mark.
C8_Completeness ==
  probe.done =>
    /\ \A n \in 1..Len(ListedLines) :
         IsFirstComplete(probe.squares, n)
           => probe.result = probe.squares[ListedLines[n][1]]
    /\ \A l \in WinningLines : \A m \in Marks :
         (/\ Holds(probe.squares, l, m)
          /\ \A l2 \in WinningLines : \A m2 \in Marks \ {m} :
               ~Holds(probe.squares, l2, m2))
         => probe.result = m
    /\ HasWinner(probe.squares) => probe.result \in Marks

\* calculateWinner has run on a board whose only complete line is the last
\* diagonal.
C8_Witness ==
  /\ probe.done
  /\ Holds(probe.squares, <<2, 4, 6>>, "O")
  /\ \A l \in WinningLines \ {<<2, 4, 6>>} : \A m \in Marks :
       ~Holds(probe.squares, l, m)
  /\ probe.result = "O"

\* C9: on a board where no line holds three equal marks calculateWinner
\* returns null; whenever it returns a mark, some line holds that mark.
C9_Soundness ==
  probe.done =>
    /\ ~HasWinner(probe.squares) => probe.result = Null
    /\ probe.result # Null =>
         /\ probe.result \in Marks
         /\ \E l \in WinningLines : Holds(probe.squares, l, probe.result)

\* calculateWinner has run on a full board without a line and returned null.
C9_Witness ==
  /\ probe.done
  /\ \A c \in Cells : probe.squares[c] # Null
  /\ ~HasWinner(probe.squares)
  /\ probe.result = Null

\* C10: the square newly filled in history[k] holds X when k is odd and O
\* when k is even, in every reachable history.
C10_MarkParity ==
  \A k \in 1..(Len(history) - 1) :
    LET prev == Nth(history, k - 1)
        cur == Nth(history, k)
    IN  /\ \E c \in Cells : cur[c] # prev[c]
        /\ \A c \in Cells : cur[c] # prev[c] => cur[c] = MarkAt(k - 1)

\* O has just moved on a branch played after a jump back.
C10_Witness ==
  /\ lastCall.op = "play"
  /\ lastCall.accepted
  /\ lastCall.discarded >= 1
  /\ currentMove = 2
  /\ \E c \in Cells : currentSquares[c] = "O"

\* The scenario of the specification: play(0), play(1), play(3), play(4),
\* play(6), then play(7).
ScenarioCells == <<0, 1, 3, 4, 6>>

\* The board after the first k plays of the scenario.
ScenarioBoard(k) ==
  [c \in Cells |->
     IF \E j \in 1..k : ScenarioCells[j] = c
     THEN MarkAt((CHOOSE j \in 1..k : ScenarioCells[j] = c) - 1)
     ELSE Null]

\* The history after the first k plays of the scenario.
ScenarioHistory(k) == [n \in 1..(k + 1) |-> ScenarioBoard(n - 1)]

\* C11: each play of the scenario is accepted, calculateWinner returns X on
\* the board it ends with, and while the viewed board has a winner every
\* play(i), i in 0..8, leaves history and currentMove as they are (only a
\* jump changes currentMove).
C11_WinFreezes ==
  [][/\ \A k \in 0..(Len(ScenarioCells) - 1) :
          (/\ history = ScenarioHistory(k)
           /\ currentMove = k
           /\ Clicked(ScenarioCells[k + 1], TRUE))
          => (/\ history' = ScenarioHistory(k + 1)
              /\ currentMove' = k + 1)
     /\ currentSquares' = ScenarioBoard(Len(ScenarioCells))
          => calculateWinner(currentSquares') = "X"
     /\ (lastCall'.op = "play" /\ Truthy(calculateWinner(currentSquares)))
          => (/\ history' = history
              /\ currentMove' = currentMove
              /\ \A i \in Cells : Clicked(i, TRUE))]_vars

\* The scenario was played to its end and a further click was ignored.
C11_Witness ==
  /\ history = ScenarioHistory(5)
  /\ currentMove = 5
  /\ calculateWinner(currentSquares) = "X"
  /\ lastCall.op = "play"
  /\ ~lastCall.accepted

\* Board b has no empty square.
Full(b) == \A c \in Cells : b[c] # Null

\* C12: when the viewed board is full and has no winner, the status is the
\* turn message "Next player: O", and every play(i), i in 0..8, leaves
\* history and currentMove as they are.
C12_DrawGap ==
  [][(Full(currentSquares) /\ ~HasWinner(currentSquares))
     => /\ status = <<"Next player", "O">>
        /\ lastCall'.op = "play"
             => (/\ history' = history
                 /\ currentMove' = currentMove
                 /\ \A i \in Cells : Clicked(i, TRUE))]_vars

\* A click was ignored on a full board without a winner.
C12_Witness ==
  /\ Full(currentSquares)
  /\ ~HasWinner(currentSquares)
  /\ status = <<"Next player", "O">>
  /\ lastCall.op = "play"
  /\ ~lastCall.accepted

\* The index of a jump lies outside history.
OutOfRange(index, hist) == index < 0 \/ index >= Len(hist)

\* C13 as stated: jumpTo with an index outside history changes neither
\* history nor currentMove, and currentMove stays within history.
C13_AsStated ==
  [][(lastCall'.op = "jumpTo" /\ OutOfRange(lastCall'.arg, history))
     => /\ history' = history
        /\ currentMove' = currentMove
        /\ ~OutOfRange(currentMove', history')]_vars

\* C13 amended: jumpTo with an index outside history leaves history
\* unchanged and sets currentMove to that index, which is then outside
\* history.
C13_OutOfRangeJump ==
  [][(lastCall'.op = "jumpTo" /\ OutOfRange(lastCall'.arg, history))
     => /\ history' = history
        /\ currentMove' = lastCall'.arg
        /\ OutOfRange(currentMove', history')]_vars

\* A jump past the end of a history of several snapshots has run.
C13_Witness ==
  /\ lastCall.op = "jumpTo"
  /\ lastCall.arg = Len(history)
  /\ currentMove = Len(history)
  /\ Len(history) >= 3

\* The lines of board b that hold three equal marks.
CompleteLines(b) == {l \in WinningLines : \E m \in Marks : Holds(b, l, m)}

\* C14 as stated: no snapshot has more than one complete line.
C14_AsStated ==
  \A k \in 0..(Len(history) - 1) :
    Cardinality(CompleteLines(Nth(history, k))) <= 1

\* C14 amended: in every snapshot all complete lines hold the same mark,
\* which is what calculateWinner returns, so the order in which the lines
\* are scanned does not affect the result.
C14_OneWinningMark ==
  \A k \in 0..(Len(history) - 1) :
    LET b == Nth(history, k)
    IN  /\ \A l1, l2 \in CompleteLines(b) : b[l1[1]] = b[l2[1]]
        /\ \A l \in CompleteLines(b) : calculateWinner(b) = b[l[1]]

\* The viewed board has two complete lines.
C14_Witness ==
  /\ Cardinality(CompleteLines(currentSquares)) = 2
  /\ calculateWinner(currentSquares) = "X"

\* C15: the status is "Winner: m" exactly when calculateWinner returns mark
\* m on history[currentMove]; otherwise it is "Next player: X" for an even
\* currentMove and "Next player: O" for an odd one.
C15_Status ==
  LET w == calculateWinner(Nth(history, currentMove))
  IN  /\ status[1] = "Winner" <=> w \in Marks
      /\ w \in Marks => status = <<"Winner", w>>
      /\ (w \notin Marks /\ currentMove % 2 = 0)
           => status = <<"Next player", "X">>
      /\ (w \notin Marks /\ currentMove % 2 = 1)
           => status = <<"Next player", "O">>

\* After a jump back from a won game the status names the next player.
C15_Witness ==
  /\ lastCall.op = "jumpTo"
  /\ currentMove = 3
  /\ calculateWinner(Nth(history, Len(history) - 1)) = "X"
  /\ status = <<"Next player", "O">>

\* C16: when the last snapshot has a winner and the pointer is at m before
\* it, play(p) on a square p that is empty in history[m] is accepted: the
\* new history is history[0..m] followed by the new board, so the winning
\* snapshot and everything after index m is discarded, and currentMove is
\* m + 1.
C16_LegalityOnViewedBoard ==
  [][(/\ lastCall'.op = "play"
      /\ HasWinner(Nth(history, Len(history) - 1))
      /\ currentMove < Len(history) - 1)
     => \A p \in Cells :
          (currentSquares[p] = Null /\ Clicked(p, TRUE))
          => /\ lastCall'.accepted
             /\ Len(history') = currentMove + 2
             /\ \A k \in 0..currentMove : Nth(history', k) = Nth(history, k)
             /\ Nth(history', currentMove + 1)[p] \in Marks
             /\ currentMove' = currentMove + 1]_vars

\* A play was accepted that discarded a snapshot with a winner.
C16_Witness ==
  /\ lastCall.op = "play"
  /\ lastCall.accepted
  /\ lastCall.discarded >= 1
  /\ lastCall.lostWinner \in Marks

\* C17: no snapshot before the last one has a winner.
C17_WonBoardIsLast ==
  \A k \in 0..(Len(history) - 2) :
    /\ calculateWinner(Nth(history, k)) = Null
    /\ ~HasWinner(Nth(history, k))

\* A game of eight snapshots that ends with a winner.
C17_Witness ==
  /\ Len(history) = 8
  /\ HasWinner(Nth(history, 7))

\* The mark that is not m.
OtherMark(m) == IF m = "X" THEN "O" ELSE "X"

\* C18: when calculateWinner returns mark m on history[k], then k >= 5, m
\* is the mark placed by move k (X for odd k, O for even k) and the other
\* mark has no complete line on history[k].
C18_WinnerJustMoved ==
  \A k \in 0..(Len(history) - 1) :
    LET b == Nth(history, k)
        m == calculateWinner(b)
    IN  m # Null
        => /\ k >= 5
           /\ m = (IF k % 2 = 1 THEN "X" ELSE "O")
           /\ \A l \in WinningLines : ~Holds(b, l, OtherMark(m))

\* O has won with its third mark.
C18_Witness ==
  /\ currentMove = 6
  /\ calculateWinner(currentSquares) = "O"
  /\ lastCall.op = "play"
  /\ lastCall.accepted

\* The number of squares of board b that hold v.
Count(b, v) == Cardinality({c \in Cells : b[c] = v})

\* C19: history[k] has exactly k non-empty squares, ceil(k/2) of them X and
\* floor(k/2) of them O; so history has at most 10 snapshots and
\* currentMove is at most 9.
C19_BoundedHistory ==
  /\ \A k \in 0..(Len(history) - 1) :
       /\ Count(Nth(history, k), "X") = (k + 1) \div 2
       /\ Count(Nth(history, k), "O") = k \div 2
       /\ Count(Nth(history, k), Null) = Cardinality(Cells) - k
  /\ Len(history) <= Cardinality(Cells) + 1
  /\ currentMove <= Cardinality(Cells)

\* A history of ten snapshots, reached on a branch played after a jump.
C19_Witness ==
  /\ Len(history) = 10
  /\ currentMove = 9
  /\ lastCall.discarded >= 1

\* No play changes the state any more: the viewed board is won or full.
Terminal == HasWinner(currentSquares) \/ Full(currentSquares)

\* C20: without jumps every accepted play adds one snapshot to a history
\* that never has more than 10, so at most 9 plays are accepted; no play is
\* accepted on a won or full board; and when legal plays keep being taken
\* the run reaches a won or full board and stays there.
C20_Termination ==
  /\ [](Len(history) <= 10)
  /\ [][AcceptedPlay => (Len(history') = Len(history) + 1 /\ ~Terminal)]_vars
  /\ <>[]Terminal

\* Nine plays were accepted and the next click was ignored.
C20_Witness ==
  /\ Len(history) = 10
  /\ Full(currentSquares)
  /\ lastCall.op = "play"
  /\ ~lastCall.accepted
  /\ Terminal
====
